---------------------------- MODULE Spec2Model ----------------------------
(***************************************************************************)
(* Model of QGISProjectManager (src/examples/qgis_example.py): a facade    *)
(* over the QGIS project's layer map.  The project (QgsProject), the layer *)
(* constructors and the vector file writer are collaborators: what they    *)
(* hold or answer is an input of the model, what the facade does with it   *)
(* is translated from the Python source.                                   *)
(*                                                                         *)
(* The project's layer map is kept as the sequence of its layers in the    *)
(* map's iteration order.  mapLayers() is a map keyed by layer id, so the  *)
(* sequence is ordered by id, and a new layer gets any unused id: it may   *)
(* land before or after the layers already registered.                     *)
(***************************************************************************)
EXTENDS Integers, Sequences, FiniteSets, TLC

(***************************************************************************)
(* Bounds of the model.                                                    *)
(***************************************************************************)
\* layer ids are drawn from 1..MaxId, so the map holds at most MaxId layers
MaxId == 2
\* the feature id lists a caller passes to select_features are [1..k], k <= MaxFid
MaxFid == 2
\* limits a caller may pass to get_layer_features are None or 0..MaxLimit
MaxLimit == 4

(***************************************************************************)
(* Values.                                                                 *)
(***************************************************************************)
\* Python's None where a string is expected
None == "None"

\* layer.type() of a vector layer ("0 = Vector layer")
VectorLayerType == 0

\* layer.type() answers: 0 for a vector layer, another code for a raster layer
LayerTypes == {VectorLayerType, VectorLayerType + 1}

RasterLayerType == CHOOSE t \in LayerTypes : t # VectorLayerType

\* an optional integer: <<>> is None, <<k>> is k
NoLimit == <<>>

Limits == {NoLimit} \cup {<<k>> : k \in 0..MaxLimit}

\* Python truthiness of an optional integer: None and 0 are false
Truthy(limit) == limit # NoLimit /\ limit[1] # 0

\* attribute values and field names of the vector sources
Values == {"a", "b"}

Attributes == {"class", "surface", "nosuch"}

\* names a caller looks layers up by
LayerNames == {"roads", "dem"}

\* layer_name arguments of add_vector_layer / add_raster_layer
NameArgs == {None, "roads"}

\* file paths, kept as the parts os.path.basename / os.path.splitext cut them into
RoadsShp == [dir |-> "/data", stem |-> "roads", ext |-> ".shp"]

\* a vector file the provider can no longer open
GoneShp == [dir |-> "/data", stem |-> "gone", ext |-> ".gone"]

DemTif == [dir |-> "/data", stem |-> "dem", ext |-> ".tif"]

FilePaths == {RoadsShp, DemTif}

\* feature_ids arguments of select_features, as the set of the list's ids
IdLists == {1..k : k \in 0..MaxFid}

\* project files
ProjectPaths == {"a.qgs", "b.qgs"}

\* os.path.splitext(os.path.basename(file_path))[0]
BaseStem(file_path) == file_path.stem

Feature(fid, class, surface) ==
    [id |-> fid, attrs |-> [class |-> class, surface |-> surface]]

\* what the OGR provider reads from a vector file: its fields in schema order,
\* its features in native order, its CRS and its extent
SourceFields(file_path) ==
    IF file_path.ext = ".shp" THEN <<"class", "surface">> ELSE <<>>

SourceFeatures(file_path) ==
    IF file_path = RoadsShp
    THEN <<Feature(1, "a", "b"), Feature(2, "b", "b"), Feature(3, "a", "a")>>
    ELSE <<>>

SourceCrs(file_path) ==
    IF file_path = RoadsShp THEN "EPSG:4326"
    ELSE IF file_path = DemTif THEN "EPSG:32633"
    ELSE ""

SourceExtent(file_path) ==
    IF file_path = RoadsShp THEN [xmin |-> 0, ymin |-> 0, xmax |-> 2, ymax |-> 1]
    ELSE [xmin |-> 0, ymin |-> 0, xmax |-> 3, ymax |-> 3]

\* QgsVectorLayer(file_path, name, "ogr"): valid when the provider can open the file.
\* A layer keeps its id, name, type, validity, data source and selection.
QgsVectorLayer(file_path, name, id) ==
    [id |-> id, name |-> name, type |-> VectorLayerType,
     valid |-> file_path.ext = ".shp", src |-> file_path, sel |-> {}]

\* QgsRasterLayer(file_path, name): valid when the provider can open the file
QgsRasterLayer(file_path, name, id) ==
    [id |-> id, name |-> name, type |-> RasterLayerType,
     valid |-> file_path.ext = ".tif", src |-> file_path, sel |-> {}]

\* layer.getFeatures(), layer.fields(), layer.crs().authid(), layer.extent()
getFeatures(layer) == IF layer.valid THEN SourceFeatures(layer.src) ELSE <<>>

fields(layer) == IF layer.valid THEN SourceFields(layer.src) ELSE <<>>

authid(layer) == IF layer.valid THEN SourceCrs(layer.src) ELSE ""

extent(layer) == SourceExtent(layer.src)

\* the layers a readable project file holds: a raster layer and a vector layer
\* whose data source is broken (invalid)
StoredLayers ==
    <<QgsRasterLayer(DemTif, "roads", 1), QgsVectorLayer(GoneShp, "dem", 2)>>

(***************************************************************************)
(* Return values: a tag and the value, so values of different Python types *)
(* are told apart by the tag.                                              *)
(***************************************************************************)
RetNone == [tag |-> "None", val |-> <<>>]

RetLayer(l) == [tag |-> "layer", val |-> <<l>>]

RetBool(b) == [tag |-> "bool", val |-> <<b>>]

RetList(s) == [tag |-> "list", val |-> s]

RetStr(s) == [tag |-> "str", val |-> <<s>>]

RetDict(d) == [tag |-> "dict", val |-> <<d>>]

\* no return value: an exception left the facade
Raised == [tag |-> "raise", val |-> <<>>]

(***************************************************************************)
(* State.                                                                  *)
(***************************************************************************)
VARIABLES
    project,        \* self.project: the reference to the project singleton
    project_path,   \* self.project_path
    layers,         \* self.project.mapLayers().values(), in iteration order
    tree,           \* self.project.layerTreeRoot(): its layer nodes, [id, visible]
    call,           \* the last facade call: [op, args, fault]; fault: a collaborator call raised
    ret,            \* what that call returned
    pre             \* the layer map when that call started

vars == <<project, project_path, layers, tree, call, ret, pre>>

Ids(ls) == {ls[i].id : i \in 1..Len(ls)}

(***************************************************************************)
(* The collaborator's operations on the layer map.                         *)
(***************************************************************************)
\* QgsProject.addMapLayer: the map is keyed by id and iterates in key order
addMapLayer(ls, layer) ==
    LET before == SelectSeq(ls, LAMBDA l : l.id < layer.id)
        after == SelectSeq(ls, LAMBDA l : l.id > layer.id)
    IN before \o <<layer>> \o after

\* a removal that finds no layer under the key it is given
removeMapLayer_nothing(ls, id) == ls

\* QgsProject.removeMapLayer(id)
removeMapLayer(ls, id) == SelectSeq(ls, LAMBDA l : l.id # id)

\* QgsProject.read(path): on success the map holds the file's layers; on failure
\* the project keeps its layers or is left cleared
project_read(ls, success, cleared) ==
    IF success THEN StoredLayers ELSE IF cleared THEN <<>> ELSE ls

\* QgsProject.addMapLayer also puts a node for the layer, checked visible, in the
\* layer tree
addLayerNode(tr, id) == tr \cup {[id |-> id, visible |-> TRUE]}

\* QgsProject.removeMapLayer also takes the layer's node out of the layer tree
removeLayerNode(tr, id) == {n \in tr : n.id # id}

\* the layer tree a readable project file holds: a node for its first layer and
\* none for its second
StoredTree == {[id |-> StoredLayers[1].id, visible |-> TRUE]}

\* QgsProject.read(path), for the layer tree
tree_read(tr, success, cleared) ==
    IF success THEN StoredTree ELSE IF cleared THEN {} ELSE tr

\* root.findLayer(id): the nodes found, none or one
findLayer(tr, id) == {n \in tr : n.id = id}

\* a visibility change that reaches every node of the tree
setItemVisibilityChecked_all(tr, id, visible) ==
    {[n EXCEPT !.visible = visible] : n \in tr}

\* node.setItemVisibilityChecked(visible), on the node of layer id
setItemVisibilityChecked(tr, id, visible) ==
    {IF n.id = id THEN [n EXCEPT !.visible = visible] ELSE n : n \in tr}

\* the layer map with one layer replaced by its changed self (layers are objects
\* the map refers to)
UpdateLayer(ls, layer) ==
    [i \in 1..Len(ls) |-> IF ls[i].id = layer.id THEN layer ELSE ls[i]]

(***************************************************************************)
(* get_layer_by_name: the scan of mapLayers().values().                    *)
(***************************************************************************)
\* a scan that keeps the last layer of the name instead of returning at the first
get_layer_by_name_last(ls, layer_name) ==
    LET m == {i \in 1..Len(ls) : ls[i].name = layer_name} IN
    IF m = {} THEN <<>> ELSE <<ls[CHOOSE i \in m : \A j \in m : j <= i]>>

RECURSIVE ScanByName(_, _, _)
ScanByName(ls, layer_name, i) ==
    IF i > Len(ls) THEN <<>>
    ELSE IF ls[i].name = layer_name THEN <<ls[i]>>
    ELSE ScanByName(ls, layer_name, i + 1)

\* <<>> for None, <<layer>> for the layer found
get_layer_by_name(ls, layer_name) == ScanByName(ls, layer_name, 1)

\* the guard without its type test
NotVector_untyped(found) == found = <<>>

\* "not layer or layer.type() != 0"
NotVector(found) == found = <<>> \/ found[1].type # VectorLayerType

\* the bookkeeping of a call; no operation assigns self.project
Called(o, a, f, r) ==
    /\ project' = project
    /\ call' = [op |-> o, args |-> a, fault |-> f]
    /\ ret' = r
    /\ pre' = layers

(***************************************************************************)
(* Construction.                                                           *)
(***************************************************************************)
Init ==
    \E path \in {None} \cup ProjectPaths, exists, success, cleared, f \in BOOLEAN :
        /\ project = "QgsProject.instance()"
        /\ project_path = path
        /\ layers = IF path # None /\ exists /\ ~f
                    THEN project_read(<<>>, success, cleared)
                    ELSE <<>>
        /\ tree = IF path # None /\ exists /\ ~f
                  THEN tree_read({}, success, cleared)
                  ELSE {}
        /\ call = [op |-> "__init__", args |-> <<path>>, fault |-> f]
        /\ ret = RetNone
        /\ pre = <<>>

(***************************************************************************)
(* Facade operations.                                                      *)
(***************************************************************************)
load_project(path, success, cleared, f) ==
    /\ project_path' = path
    /\ IF f
       THEN layers' = layers /\ tree' = tree /\ Called("load_project", <<path>>, f, RetBool(FALSE))
       ELSE /\ layers' = project_read(layers, success, cleared)
            /\ tree' = tree_read(tree, success, cleared)
            /\ Called("load_project", <<path>>, f, RetBool(success))

\* a save that records the path before it knows the write succeeded
save_project_eager(save_path, success, f) ==
    LET path == IF save_path # None THEN save_path ELSE project_path IN
    /\ layers' = layers /\ tree' = tree
    /\ project_path' = path
    /\ Called("save_project", <<save_path>>, f,
              RetBool(path # None /\ ~f /\ success))

save_project(save_path, success, f) ==
    LET path == IF save_path # None THEN save_path ELSE project_path IN
    /\ layers' = layers /\ tree' = tree
    /\ IF path = None
       THEN project_path' = project_path
            /\ Called("save_project", <<save_path>>, f, RetBool(FALSE))
       ELSE IF f
       THEN project_path' = project_path
            /\ Called("save_project", <<save_path>>, f, RetBool(FALSE))
       ELSE /\ project_path' = IF success THEN path ELSE project_path
            /\ Called("save_project", <<save_path>>, f, RetBool(success))

\* an add that registers the layer without asking whether it is valid
add_vector_layer_unchecked(file_path, layer_name, id, f) ==
    LET name == IF layer_name # None THEN layer_name ELSE BaseStem(file_path)
        layer == QgsVectorLayer(file_path, name, id)
    IN
    /\ project_path' = project_path
    /\ IF f
       THEN layers' = layers /\ tree' = tree
            /\ Called("add_vector_layer", <<file_path, layer_name>>, f, RetNone)
       ELSE /\ layers' = addMapLayer(layers, layer)
            /\ tree' = addLayerNode(tree, layer.id)
            /\ Called("add_vector_layer", <<file_path, layer_name>>, f, RetLayer(layer))

add_vector_layer(file_path, layer_name, id, f) ==
    LET name == IF layer_name # None THEN layer_name ELSE BaseStem(file_path)
        layer == QgsVectorLayer(file_path, name, id)
    IN
    /\ project_path' = project_path
    /\ IF f
       THEN layers' = layers /\ tree' = tree
            /\ Called("add_vector_layer", <<file_path, layer_name>>, f, RetNone)
       ELSE IF ~layer.valid
       THEN layers' = layers /\ tree' = tree
            /\ Called("add_vector_layer", <<file_path, layer_name>>, f, RetNone)
       ELSE /\ layers' = addMapLayer(layers, layer)
            /\ tree' = addLayerNode(tree, layer.id)
            /\ Called("add_vector_layer", <<file_path, layer_name>>, f, RetLayer(layer))

add_raster_layer(file_path, layer_name, id, f) ==
    LET name == IF layer_name # None THEN layer_name ELSE BaseStem(file_path)
        layer == QgsRasterLayer(file_path, name, id)
    IN
    /\ project_path' = project_path
    /\ IF f
       THEN layers' = layers /\ tree' = tree
            /\ Called("add_raster_layer", <<file_path, layer_name>>, f, RetNone)
       ELSE IF ~layer.valid
       THEN layers' = layers /\ tree' = tree
            /\ Called("add_raster_layer", <<file_path, layer_name>>, f, RetNone)
       ELSE /\ layers' = addMapLayer(layers, layer)
            /\ tree' = addLayerNode(tree, layer.id)
            /\ Called("add_raster_layer", <<file_path, layer_name>>, f, RetLayer(layer))

\* the dictionary list_layers builds for one layer
LayerInfo(layer) ==
    [id |-> layer.id, name |-> layer.name, type |-> layer.type,
     valid |-> layer.valid,
     crs |-> IF authid(layer) # "" THEN authid(layer) ELSE "Unknown"]

\* list_layers has no try/except: a collaborator fault leaves it as an exception
list_layers(f) ==
    /\ UNCHANGED <<project_path, layers, tree>>
    /\ Called("list_layers", <<>>, f,
              IF f THEN Raised
              ELSE RetList([i \in 1..Len(layers) |-> LayerInfo(layers[i])]))

\* the call of get_layer_by_name by a caller; it has no try/except either
find_layer(layer_name, f) ==
    LET found == get_layer_by_name(layers, layer_name) IN
    /\ UNCHANGED <<project_path, layers, tree>>
    /\ Called("get_layer_by_name", <<layer_name>>, f,
              IF f THEN Raised
              ELSE IF found = <<>> THEN RetNone ELSE RetLayer(found[1]))

\* a removal of every layer of the name
remove_layer_all(layer_name, f) ==
    LET found == get_layer_by_name(layers, layer_name) IN
    /\ project_path' = project_path
    /\ IF f
       THEN layers' = layers /\ tree' = tree /\ Called("remove_layer", <<layer_name>>, f, RetBool(FALSE))
       ELSE IF found # <<>>
       THEN /\ layers' = SelectSeq(layers, LAMBDA l : l.name # layer_name)
            /\ tree' = {n \in tree : \E k \in 1..Len(layers) :
                              layers[k].id = n.id /\ layers[k].name # layer_name}
            /\ Called("remove_layer", <<layer_name>>, f, RetBool(TRUE))
       ELSE layers' = layers /\ tree' = tree /\ Called("remove_layer", <<layer_name>>, f, RetBool(FALSE))

remove_layer(layer_name, f) ==
    LET found == get_layer_by_name(layers, layer_name) IN
    /\ project_path' = project_path
    /\ IF f
       THEN layers' = layers /\ tree' = tree /\ Called("remove_layer", <<layer_name>>, f, RetBool(FALSE))
       ELSE IF found # <<>>
       THEN /\ layers' = removeMapLayer(layers, found[1].id)
            /\ tree' = removeLayerNode(tree, found[1].id)
            /\ Called("remove_layer", <<layer_name>>, f, RetBool(TRUE))
       ELSE layers' = layers /\ tree' = tree /\ Called("remove_layer", <<layer_name>>, f, RetBool(FALSE))

\* the loop of get_layer_features: i is enumerate's index, from 0
RECURSIVE CollectFeatures(_, _, _, _)
CollectFeatures(feats, limit, i, acc) ==
    IF i >= Len(feats) THEN acc
    ELSE IF Truthy(limit) /\ i >= limit[1] THEN acc
    ELSE CollectFeatures(feats, limit, i + 1, Append(acc, feats[i + 1]))

get_layer_features(layer_name, limit, f) ==
    LET found == get_layer_by_name(layers, layer_name) IN
    /\ UNCHANGED <<project_path, layers, tree>>
    /\ Called("get_layer_features", <<layer_name, limit>>, f,
              IF f THEN RetList(<<>>)
              ELSE IF NotVector(found) THEN RetList(<<>>)
              ELSE RetList(CollectFeatures(getFeatures(found[1]), limit, 0, <<>>)))

get_layer_attributes(layer_name, f) ==
    LET found == get_layer_by_name(layers, layer_name) IN
    /\ UNCHANGED <<project_path, layers, tree>>
    /\ Called("get_layer_attributes", <<layer_name>>, f,
              IF f THEN RetList(<<>>)
              ELSE IF NotVector(found) THEN RetList(<<>>)
              ELSE RetList(fields(found[1])))

\* a filter loop that stops at its first match
RECURSIVE MatchFeatures_first(_, _, _, _, _)
MatchFeatures_first(feats, attribute, value, k, acc) ==
    IF k > Len(feats) THEN RetList(acc)
    ELSE IF attribute \notin DOMAIN feats[k].attrs THEN RetList(<<>>)
    ELSE IF feats[k].attrs[attribute] = value
    THEN RetList(Append(acc, feats[k]))
    ELSE MatchFeatures_first(feats, attribute, value, k + 1, acc)

\* the loop of filter_features; feature.attribute raises KeyError for a name
\* that is no field, which the except clause turns into []
RECURSIVE MatchFeatures(_, _, _, _, _)
MatchFeatures(feats, attribute, value, k, acc) ==
    IF k > Len(feats) THEN RetList(acc)
    ELSE IF attribute \notin DOMAIN feats[k].attrs THEN RetList(<<>>)
    ELSE IF feats[k].attrs[attribute] = value
    THEN MatchFeatures(feats, attribute, value, k + 1, Append(acc, feats[k]))
    ELSE MatchFeatures(feats, attribute, value, k + 1, acc)

filter_features(layer_name, attribute, value, f) ==
    LET found == get_layer_by_name(layers, layer_name) IN
    /\ UNCHANGED <<project_path, layers, tree>>
    /\ Called("filter_features", <<layer_name, attribute, value>>, f,
              IF f THEN RetList(<<>>)
              ELSE IF NotVector(found) THEN RetList(<<>>)
              ELSE MatchFeatures(getFeatures(found[1]), attribute, value, 1, <<>>))

\* a selection that adds the ids to the ids already selected
selectByIds_add(layer, feature_ids) == [layer EXCEPT !.sel = @ \cup feature_ids]

\* QgsVectorLayer.selectByIds: the selection becomes the ids given
selectByIds(layer, feature_ids) == [layer EXCEPT !.sel = feature_ids]

\* QgsVectorLayer.removeSelection
removeSelection(layer) == [layer EXCEPT !.sel = {}]

select_features(layer_name, feature_ids, f) ==
    LET found == get_layer_by_name(layers, layer_name) IN
    /\ project_path' = project_path
    /\ IF f
       THEN layers' = layers /\ tree' = tree
            /\ Called("select_features", <<layer_name, feature_ids>>, f, RetBool(FALSE))
       ELSE IF NotVector(found)
       THEN layers' = layers /\ tree' = tree
            /\ Called("select_features", <<layer_name, feature_ids>>, f, RetBool(FALSE))
       ELSE /\ layers' = UpdateLayer(layers, selectByIds(found[1], feature_ids))
            /\ tree' = tree
            /\ Called("select_features", <<layer_name, feature_ids>>, f, RetBool(TRUE))

clear_selection(layer_name, f) ==
    LET found == get_layer_by_name(layers, layer_name) IN
    /\ project_path' = project_path
    /\ IF f
       THEN layers' = layers /\ tree' = tree
            /\ Called("clear_selection", <<layer_name>>, f, RetBool(FALSE))
       ELSE IF NotVector(found)
       THEN layers' = layers /\ tree' = tree
            /\ Called("clear_selection", <<layer_name>>, f, RetBool(FALSE))
       ELSE /\ layers' = UpdateLayer(layers, removeSelection(found[1]))
            /\ tree' = tree
            /\ Called("clear_selection", <<layer_name>>, f, RetBool(TRUE))

\* a CRS lookup that, like the feature operations, turns raster layers away
get_layer_crs_vector_only(layer_name, f) ==
    LET found == get_layer_by_name(layers, layer_name) IN
    /\ UNCHANGED <<project_path, layers, tree>>
    /\ Called("get_layer_crs", <<layer_name>>, f,
              IF f THEN RetNone
              ELSE IF NotVector(found) THEN RetNone
              ELSE RetStr(authid(found[1])))

get_layer_crs(layer_name, f) ==
    LET found == get_layer_by_name(layers, layer_name) IN
    /\ UNCHANGED <<project_path, layers, tree>>
    /\ Called("get_layer_crs", <<layer_name>>, f,
              IF f THEN RetNone
              ELSE IF found = <<>> THEN RetNone
              ELSE RetStr(authid(found[1])))

get_layer_extent(layer_name, f) ==
    LET found == get_layer_by_name(layers, layer_name) IN
    /\ UNCHANGED <<project_path, layers, tree>>
    /\ Called("get_layer_extent", <<layer_name>>, f,
              IF f THEN RetNone
              ELSE IF found = <<>> THEN RetNone
              ELSE RetDict(extent(found[1])))

\* no_error: QgsVectorFileWriter.writeAsVectorFormat answered NoError
export_vector_layer(layer_name, driver_name, no_error, f) ==
    LET found == get_layer_by_name(layers, layer_name) IN
    /\ UNCHANGED <<project_path, layers, tree>>
    /\ Called("export_vector_layer", <<layer_name, driver_name>>, f,
              IF f THEN RetBool(FALSE)
              ELSE IF NotVector(found) THEN RetBool(FALSE)
              ELSE RetBool(no_error))

set_layer_visibility(layer_name, visible, f) ==
    LET found == get_layer_by_name(layers, layer_name) IN
    /\ UNCHANGED <<project_path, layers>>
    /\ IF f
       THEN tree' = tree
            /\ Called("set_layer_visibility", <<layer_name, visible>>, f, RetBool(FALSE))
       ELSE IF found = <<>>
       THEN tree' = tree
            /\ Called("set_layer_visibility", <<layer_name, visible>>, f, RetBool(FALSE))
       ELSE IF findLayer(tree, found[1].id) # {}
       THEN /\ tree' = setItemVisibilityChecked(tree, found[1].id, visible)
            /\ Called("set_layer_visibility", <<layer_name, visible>>, f, RetBool(TRUE))
       ELSE tree' = tree
            /\ Called("set_layer_visibility", <<layer_name, visible>>, f, RetBool(FALSE))

\* the operations on the layer map, its layers and the facade's own fields
NextMap ==
    \/ \E path \in ProjectPaths, success, cleared, f \in BOOLEAN :
           load_project(path, success, cleared, f)
    \/ \E save_path \in {None} \cup ProjectPaths, success, f \in BOOLEAN :
           save_project(save_path, success, f)
    \/ \E file_path \in FilePaths, layer_name \in NameArgs,
          id \in (1..MaxId) \ Ids(layers), f \in BOOLEAN :
           add_vector_layer(file_path, layer_name, id, f)
    \/ \E file_path \in FilePaths, layer_name \in NameArgs,
          id \in (1..MaxId) \ Ids(layers), f \in BOOLEAN :
           add_raster_layer(file_path, layer_name, id, f)
    \/ \E f \in BOOLEAN : list_layers(f)
    \/ \E layer_name \in LayerNames, f \in BOOLEAN : find_layer(layer_name, f)
    \/ \E layer_name \in LayerNames, f \in BOOLEAN : remove_layer(layer_name, f)
    \/ \E layer_name \in LayerNames, limit \in Limits, f \in BOOLEAN :
           get_layer_features(layer_name, limit, f)
    \/ \E layer_name \in LayerNames, f \in BOOLEAN : get_layer_attributes(layer_name, f)
    \/ \E layer_name \in LayerNames, attribute \in Attributes, value \in Values,
          f \in BOOLEAN :
           filter_features(layer_name, attribute, value, f)
    \/ \E layer_name \in LayerNames, feature_ids \in IdLists, f \in BOOLEAN :
           select_features(layer_name, feature_ids, f)
    \/ \E layer_name \in LayerNames, f \in BOOLEAN : clear_selection(layer_name, f)
    \/ \E layer_name \in LayerNames, f \in BOOLEAN : get_layer_crs(layer_name, f)
    \/ \E layer_name \in LayerNames, f \in BOOLEAN : get_layer_extent(layer_name, f)
    \/ \E layer_name \in LayerNames, no_error, f \in BOOLEAN :
           export_vector_layer(layer_name, "ESRI Shapefile", no_error, f)

\* the operations that read or change the layer tree, or what a name resolves to
NextTree ==
    \/ \E path \in ProjectPaths, success, cleared, f \in BOOLEAN :
           load_project(path, success, cleared, f)
    \/ \E file_path \in FilePaths, layer_name \in NameArgs,
          id \in (1..MaxId) \ Ids(layers), f \in BOOLEAN :
           add_vector_layer(file_path, layer_name, id, f)
    \/ \E file_path \in FilePaths, layer_name \in NameArgs,
          id \in (1..MaxId) \ Ids(layers), f \in BOOLEAN :
           add_raster_layer(file_path, layer_name, id, f)
    \/ \E layer_name \in LayerNames, f \in BOOLEAN : remove_layer(layer_name, f)
    \/ \E layer_name \in LayerNames, visible, f \in BOOLEAN :
           set_layer_visibility(layer_name, visible, f)

Next ==
    \/ NextMap
    \/ \E layer_name \in LayerNames, visible, f \in BOOLEAN :
           set_layer_visibility(layer_name, visible, f)

\* every operation of the facade
Spec == Init /\ [][Next]_vars

\* The visibility flags are written by set_layer_visibility alone and read by no
\* operation, and the selections, the facade's fields and the read-only
\* operations play no part in set_layer_visibility.  SpecMap is Spec without
\* the changes of visibility flags; SpecTree is Spec without the operations
\* that neither touch the layer tree nor change what a name resolves to.
SpecMap == Init /\ [][NextMap]_vars

SpecTree == Init /\ [][NextTree]_vars

(***************************************************************************)
(* Vocabulary of the claims, stated on the layer map itself.               *)
(***************************************************************************)
\* the positions of the layers called layer_name
Matching(ls, layer_name) == {i \in 1..Len(ls) : ls[i].name = layer_name}

\* the position of the first of them
FirstPos(ls, layer_name) ==
    CHOOSE i \in Matching(ls, layer_name) : \A j \in Matching(ls, layer_name) : i <= j

\* the name resolves to a vector layer
ResolvesToVector(ls, layer_name) ==
    /\ Matching(ls, layer_name) # {}
    /\ ls[FirstPos(ls, layer_name)].type = VectorLayerType

VectorOps ==
    {"get_layer_features", "get_layer_attributes", "filter_features",
     "select_features", "clear_selection", "export_vector_layer"}

\* the failure value of an operation that needs a vector layer
FailureValue(o) ==
    IF o \in {"get_layer_features", "get_layer_attributes", "filter_features"}
    THEN RetList(<<>>)
    ELSE RetBool(FALSE)

(***************************************************************************)
(* C1: get_layer_by_name returns the first layer, in the map's iteration   *)
(* order, whose name is the name given, and None when no layer has it; it  *)
(* leaves the map as it was, so the answer on an unchanged map is the same *)
(* on every call.                                                          *)
(***************************************************************************)
C1_FindReturnsFirstMatch ==
    (call.op = "get_layer_by_name" /\ ~call.fault) =>
        /\ layers = pre
        /\ IF Matching(layers, call.args[1]) = {}
           THEN ret = RetNone
           ELSE /\ ret.tag = "layer"
                /\ ret.val[1] = layers[FirstPos(layers, call.args[1])]

C1_Witness ==
    /\ call.op = "get_layer_by_name"
    /\ ~call.fault
    /\ Cardinality(Matching(layers, call.args[1])) >= 2
    /\ ret.tag = "layer"
    /\ ret.val[1].id = layers[1].id

(***************************************************************************)
(* C2: an operation that needs a vector layer (features, attributes,       *)
(* filter, select, clear_selection, export) called with a name that        *)
(* resolves to no layer, or whose first layer is a raster layer, returns   *)
(* its failure value, raises nothing, and leaves the layer map and every   *)
(* selection as they were.                                                 *)
(***************************************************************************)
C2_VectorOpsReject ==
    (call.op \in VectorOps /\ ~ResolvesToVector(pre, call.args[1])) =>
        /\ ret = FailureValue(call.op)
        /\ layers = pre

C2_Witness ==
    /\ call.op = "select_features"
    /\ ~call.fault
    /\ call.args[2] # {}
    /\ Matching(pre, call.args[1]) # {}
    /\ pre[FirstPos(pre, call.args[1])].type # VectorLayerType
    /\ \E i \in Matching(pre, call.args[1]) : pre[i].type = VectorLayerType
    /\ ret = RetBool(FALSE)

(***************************************************************************)
(* C3: no collaborator fault leaves a facade operation as an exception:    *)
(* whenever a collaborator call raises, the operation still returns a      *)
(* value.                                                                  *)
(***************************************************************************)
C3_NoFaultEscapes == call.fault => ret.tag # "raise"

(***************************************************************************)
(* C4: filter_features on a name that resolves to a vector layer returns   *)
(* exactly the features of that layer whose attribute equals the value, in *)
(* the layer's native order; on a raster layer it returns the empty list;  *)
(* it changes no project state, so a second call on the unchanged project  *)
(* returns the same list.                                                  *)
(***************************************************************************)
\* feature ft has the attribute and its value is the value asked for
AttributeEquals(ft, attribute, value) ==
    attribute \in DOMAIN ft.attrs /\ ft.attrs[attribute] = value

C4_FilterReturnsMatches ==
    (call.op = "filter_features" /\ ~call.fault) =>
        /\ layers = pre
        /\ ret.tag = "list"
        /\ IF ResolvesToVector(pre, call.args[1])
           THEN LET all == getFeatures(pre[FirstPos(pre, call.args[1])])
                    keep == {k \in 1..Len(all) :
                                AttributeEquals(all[k], call.args[2], call.args[3])}
                IN /\ Len(ret.val) = Cardinality(keep)
                   /\ \A k \in keep : \E m \in 1..Len(ret.val) : ret.val[m] = all[k]
                   /\ \A m \in 1..Len(ret.val) : \E k \in keep : ret.val[m] = all[k]
                   /\ \A m, n \in 1..Len(ret.val) :
                          m < n => \E k, l \in keep :
                                       k < l /\ ret.val[m] = all[k] /\ ret.val[n] = all[l]
           ELSE ret.val = <<>>

C4_Witness ==
    /\ call.op = "filter_features"
    /\ ~call.fault
    /\ ResolvesToVector(pre, call.args[1])
    /\ ret.tag = "list"
    /\ Len(ret.val) = 2
    /\ Len(getFeatures(pre[FirstPos(pre, call.args[1])])) = 3
    /\ ret.val[1].id = 1
    /\ ret.val[2].id = 3

(***************************************************************************)
(* C5: get_layer_features on a resolved vector layer with n features       *)
(* returns the first min(limit, n) features in native order for every      *)
(* limit >= 0 given, 0 included, and all n features when no limit is       *)
(* given.                                                                  *)
(***************************************************************************)
C5_FeaturesHonoursLimit ==
    (/\ call.op = "get_layer_features"
     /\ ~call.fault
     /\ ResolvesToVector(pre, call.args[1])) =>
        LET all == getFeatures(pre[FirstPos(pre, call.args[1])])
            limit == call.args[2]
            n == IF limit = NoLimit \/ limit[1] >= Len(all) THEN Len(all) ELSE limit[1]
        IN ret = RetList([k \in 1..n |-> all[k]])

\* the same for the limits Python holds true (None, or an integer other than 0)
C5_FeaturesHonoursNonZeroLimit ==
    (call.op = "get_layer_features" /\ call.args[2] # <<0>>) => C5_FeaturesHonoursLimit

(***************************************************************************)
(* C6: a select_features or clear_selection call on a name that resolves   *)
(* to a vector layer leaves that layer's selection equal to exactly the    *)
(* ids given (select) or empty (clear_selection), whatever it was before,  *)
(* and changes nothing else in the map; so after any sequence of such      *)
(* calls the selection is that of the most recent one, and select followed *)
(* by clear_selection leaves it empty.                                     *)
(***************************************************************************)
C6_SelectionIsLastCall ==
    (/\ call.op \in {"select_features", "clear_selection"}
     /\ ~call.fault
     /\ ResolvesToVector(pre, call.args[1])) =>
        LET p == FirstPos(pre, call.args[1]) IN
        /\ ret = RetBool(TRUE)
        /\ Len(layers) = Len(pre)
        /\ \A i \in 1..Len(pre) : i # p => layers[i] = pre[i]
        /\ layers[p] = [pre[p] EXCEPT !.sel = IF call.op = "select_features"
                                               THEN call.args[2] ELSE {}]

\* a clear_selection that met the non-empty selection an earlier select left
C6_Witness ==
    /\ call.op = "clear_selection"
    /\ ~call.fault
    /\ ResolvesToVector(pre, call.args[1])
    /\ pre[FirstPos(pre, call.args[1])].sel # {}
    /\ layers[FirstPos(pre, call.args[1])].sel = {}
    /\ ret = RetBool(TRUE)

(***************************************************************************)
(* C7 as stated: for every registry and every name, after remove(name) a   *)
(* find_by_name(name) returns None and a second remove(name) returns       *)
(* False.  (Read for calls in which no collaborator call raises.)          *)
(***************************************************************************)
\* this step is a fault-free find or remove of the name a fault-free remove just had
AfterRemoveSameName ==
    /\ call.op = "remove_layer"
    /\ ~call.fault
    /\ call'.op \in {"get_layer_by_name", "remove_layer"}
    /\ ~call'.fault
    /\ call'.args = call.args

ThenAbsent ==
    ret' = IF call'.op = "get_layer_by_name" THEN RetNone ELSE RetBool(FALSE)

C7_RemoveThenAbsent_AsStated == [][AfterRemoveSameName => ThenAbsent]_vars

(***************************************************************************)
(* C7 as amended: when at most one layer had the name before remove(name), *)
(* a find_by_name(name) after it returns None and a second remove(name)    *)
(* returns False; when two or more layers had it, remove(name) took only   *)
(* the first away, so find_by_name(name) returns the next layer of that    *)
(* name and the second remove(name) returns True.                          *)
(***************************************************************************)
C7_RemoveThenAbsentIfUnique ==
    [][AfterRemoveSameName =>
          IF Cardinality(Matching(pre, call.args[1])) <= 1
          THEN ThenAbsent
          ELSE IF call'.op = "get_layer_by_name"
          THEN /\ ret'.tag = "layer"
               /\ ret'.val[1].name = call.args[1]
               /\ ret'.val[1].id # pre[FirstPos(pre, call.args[1])].id
          ELSE ret' = RetBool(TRUE)]_vars

\* a remove that took away the only layer of its name
C7_Witness ==
    /\ call.op = "remove_layer"
    /\ ~call.fault
    /\ Cardinality(Matching(pre, call.args[1])) = 1
    /\ ret = RetBool(TRUE)
    /\ Len(layers) >= 1
    /\ Matching(layers, call.args[1]) = {}

(***************************************************************************)
(* C8: add_vector_layer and add_raster_layer register a layer only when    *)
(* the collaborator reports the constructed layer valid.  On an invalid    *)
(* layer they return None and leave the layer map as it was; on a valid    *)
(* one they add exactly that layer to the map and return it; so a layer    *)
(* the facade registers is valid when it is registered.                    *)
(***************************************************************************)
\* the collaborator's report on the layer an add constructs from file_path
ReportsValid(o, file_path) ==
    IF o = "add_vector_layer"
    THEN QgsVectorLayer(file_path, "", 0).valid
    ELSE QgsRasterLayer(file_path, "", 0).valid

\* sequence ls without its element at position p
Without(ls, p) == [i \in 1..(Len(ls) - 1) |-> IF i < p THEN ls[i] ELSE ls[i + 1]]

C8_AddRegistersOnlyValid ==
    (call.op \in {"add_vector_layer", "add_raster_layer"}) =>
        /\ ret = RetNone \/ ret.tag = "layer"
        /\ ~call.fault => (ret.tag = "layer" <=> ReportsValid(call.op, call.args[1]))
        /\ ret = RetNone => layers = pre
        /\ ret.tag = "layer" =>
               /\ ret.val[1].valid
               /\ ret.val[1].type = IF call.op = "add_vector_layer"
                                    THEN VectorLayerType ELSE RasterLayerType
               /\ ret.val[1].id \notin Ids(pre)
               /\ \E p \in 1..Len(layers) :
                      layers[p] = ret.val[1] /\ Without(layers, p) = pre

\* an add refused because the layer it constructed is invalid, on a map that holds layers
C8_Witness ==
    /\ call.op = "add_vector_layer"
    /\ ~call.fault
    /\ ~ReportsValid(call.op, call.args[1])
    /\ ret = RetNone
    /\ Len(pre) >= 1
    /\ layers = pre

(***************************************************************************)
(* C9 as stated: the facade holds no mutable state of its own; after any   *)
(* sequence of operations, load_project and save_project included, every   *)
(* field of the facade has the value it had after construction.            *)
(***************************************************************************)
C9_FieldsNeverChange_AsStated ==
    [][project' = project /\ project_path' = project_path]_vars

(***************************************************************************)
(* C9 as amended: the facade never changes its project reference; its      *)
(* project_path field is changed only by load_project, which sets it to    *)
(* the path given whether the load succeeds or fails, and by save_project, *)
(* which sets it to the path written when the write succeeds; every other  *)
(* operation, and a save that fails, leaves every field as it was.         *)
(***************************************************************************)
C9_OnlyLoadAndSaveSetPath ==
    [][/\ project' = project
       /\ project_path' =
            IF call'.op = "load_project" THEN call'.args[1]
            ELSE IF call'.op = "save_project" /\ ret' = RetBool(TRUE)
            THEN (IF call'.args[1] # None THEN call'.args[1] ELSE project_path)
            ELSE project_path]_vars

\* a load that failed and yet left its path in the facade
C9_Witness ==
    /\ call.op = "load_project"
    /\ ret = RetBool(FALSE)
    /\ project_path = call.args[1]
    /\ project_path = "b.qgs"

(***************************************************************************)
(* C10: remove_layer returns False and leaves the layer map as it was when *)
(* the name resolves to no layer; when it resolves, it returns True and    *)
(* removes exactly one entry, the layer get_layer_by_name returns for the  *)
(* name (the first of that name), leaving every other layer, those of the  *)
(* same name included, in the map in their order.                          *)
(***************************************************************************)
C10_RemoveTakesFirstOnly ==
    (call.op = "remove_layer" /\ ~call.fault) =>
        IF Matching(pre, call.args[1]) = {}
        THEN ret = RetBool(FALSE) /\ layers = pre
        ELSE /\ ret = RetBool(TRUE)
             /\ layers = Without(pre, FirstPos(pre, call.args[1]))
             /\ pre[FirstPos(pre, call.args[1])].id \notin Ids(layers)

\* a remove that left another layer of the same name in the map
C10_Witness ==
    /\ call.op = "remove_layer"
    /\ ~call.fault
    /\ Cardinality(Matching(pre, call.args[1])) >= 2
    /\ ret = RetBool(TRUE)
    /\ Matching(layers, call.args[1]) # {}

(***************************************************************************)
(* C12: get_layer_crs returns the CRS authority code of the first layer of *)
(* the name given, be it a vector or a raster layer, and None when no      *)
(* layer has the name; it changes no project state.                        *)
(***************************************************************************)
C12_CrsOfFirstMatch ==
    (call.op = "get_layer_crs" /\ ~call.fault) =>
        /\ layers = pre
        /\ IF Matching(pre, call.args[1]) = {}
           THEN ret = RetNone
           ELSE ret = RetStr(authid(pre[FirstPos(pre, call.args[1])]))

\* the CRS of a raster layer that comes before a vector layer of the same name
C12_Witness ==
    /\ call.op = "get_layer_crs"
    /\ ~call.fault
    /\ Cardinality(Matching(pre, call.args[1])) >= 2
    /\ pre[FirstPos(pre, call.args[1])].type = RasterLayerType
    /\ \E i \in Matching(pre, call.args[1]) :
           /\ pre[i].type = VectorLayerType
           /\ authid(pre[i]) # authid(pre[FirstPos(pre, call.args[1])])
    /\ ret = RetStr("EPSG:32633")

(***************************************************************************)
(* C11: set_layer_visibility returns False and changes no visibility flag  *)
(* when the name resolves to no layer or the layer tree has no node for    *)
(* the resolved layer's id; otherwise it returns True and sets the flag of *)
(* exactly the node of the resolved layer's id to the value given, leaving *)
(* the flags of all other nodes, and the layer map, as they were.          *)
(***************************************************************************)
\* the flag of the node of layer id in tree tr, as a set: empty when there is no node
FlagOf(tr, id) == {n.visible : n \in {m \in tr : m.id = id}}

NodeIds(tr) == {n.id : n \in tr}

C11_VisibilitySetsOneNode ==
    [][(call'.op = "set_layer_visibility" /\ ~call'.fault) =>
          LET name == call'.args[1]
              resolved == Matching(layers, name) # {}
              id == layers[FirstPos(layers, name)].id
          IN /\ layers' = layers
             /\ IF ~resolved \/ FlagOf(tree, id) = {}
                THEN ret' = RetBool(FALSE) /\ tree' = tree
                ELSE /\ ret' = RetBool(TRUE)
                     /\ NodeIds(tree') = NodeIds(tree)
                     /\ Cardinality(tree') = Cardinality(tree)
                     /\ FlagOf(tree', id) = {call'.args[2]}
                     /\ \A other \in NodeIds(tree) \ {id} :
                            FlagOf(tree', other) = FlagOf(tree, other)]_vars

\* the first of two layers of one name has been hidden and the second is still shown
C11_Witness ==
    /\ call.op = "set_layer_visibility"
    /\ ~call.fault
    /\ call.args[2] = FALSE
    /\ ret = RetBool(TRUE)
    /\ Cardinality(Matching(layers, call.args[1])) >= 2
    /\ FlagOf(tree, layers[FirstPos(layers, call.args[1])].id) = {FALSE}
    /\ \E i \in Matching(layers, call.args[1]) : FlagOf(tree, layers[i].id) = {TRUE}

\* a call turned away because the resolved layer has no node in the layer tree
C11_NoNodeReached ==
    /\ call.op = "set_layer_visibility"
    /\ ~call.fault
    /\ Matching(layers, call.args[1]) # {}
    /\ FlagOf(tree, layers[FirstPos(layers, call.args[1])].id) = {}
    /\ ret = RetBool(FALSE)

=============================================================================
